---- MODULE Spec2Model ----
(***************************************************************************)
(* Comparison engine of the Data-Analysis-Tool (src/comparison_logic.py):  *)
(* schema classification, facility reconciliation, quality analysis,      *)
(* record matching and the report built from them.                        *)
(*                                                                         *)
(* A DataFrame is a record [columns, rows]: columns is the sequence of     *)
(* column labels, rows the sequence of rows, a row being the sequence of   *)
(* its cells in column order.  The row index of pandas is the position.    *)
(***************************************************************************)
EXTENDS Integers, Sequences, FiniteSets, TLC

VARIABLES raw_data_df, ingestion_df, pc, comparison_results, quality_data,
          clock, report

vars == <<raw_data_df, ingestion_df, pc, comparison_results, quality_data,
          clock, report>>

-----------------------------------------------------------------------------
(* Bounds of the model.                                                    *)

MaxIngRows == 2

MaxRawRows == 2

MaxClock == 3

-----------------------------------------------------------------------------
(* Cell values: a string, a number or a missing value (NaN).               *)

Str(s) == [t |-> "str", s |-> s, n |-> 0]

Num(k) == [t |-> "num", s |-> "", n |-> k]

NaN == [t |-> "nan", s |-> "", n |-> 0]

(* Series.isnull / Series.dropna: the missing cells.                       *)
isnull(v) == v.t = "nan"

(* Variant: two missing values compare equal.                              *)
PyEq_MissingEqual(a, b) == a = b

(* Python's == on two cells: NaN equals nothing, itself included; a string *)
(* never equals a number.                                                  *)
PyEq(a, b) == ~isnull(a) /\ ~isnull(b) /\ a = b

(* Variant: the operands of the subtraction are exchanged.                 *)
PySub_Exchanged(a, b) == IF isnull(a) \/ isnull(b) THEN NaN ELSE Num(b.n - a.n)

(* Python's - on two cells: a str operand raises TypeError, a NaN operand  *)
(* gives NaN.                                                              *)
SubRaises(a, b) == a.t = "str" \/ b.t = "str"

PySub(a, b) == IF isnull(a) \/ isnull(b) THEN NaN ELSE Num(a.n - b.n)

-----------------------------------------------------------------------------
(* Column labels.  A label read from a sheet is a string or, for a numeric *)
(* or date header cell, a non-string object.  The text of a string label   *)
(* is the concatenation of parts; it is cut so that a month token it       *)
(* contains is one part.                                                   *)

Label(s) == [isstr |-> TRUE, parts |-> <<s>>]

LabelOf(ps) == [isstr |-> TRUE, parts |-> ps]

IntLabel == [isstr |-> FALSE, parts |-> <<"2024">>]

(* Python's `token in col` for a string label col.                         *)
InStr(token, col) == \E i \in DOMAIN col.parts : col.parts[i] = token

Range(s) == {s[i] : i \in DOMAIN s}

(* `name in df.columns`, `name in list(df.columns)`.                       *)
HasColumn(df, name) == Label(name) \in Range(df.columns)

ColIndex(df, lab) == CHOOSE i \in DOMAIN df.columns : df.columns[i] = lab

(* row[name], df[name] at one row.                                         *)
Cell(df, row, name) == row[ColIndex(df, Label(name))]

(* The elements of a finite set of positions, in ascending order.          *)
RECURSIVE Ascending(_)
Ascending(S) ==
    IF S = {} THEN <<>>
    ELSE LET m == CHOOSE x \in S : \A y \in S : y <= x
         IN  Append(Ascending(S \ {m}), m)

-----------------------------------------------------------------------------
(* identify_resource_type                                                  *)

identify_resource_type(df) ==
    IF HasColumn(df, "Scope") THEN "GHG Emissions" ELSE "Unknown"

-----------------------------------------------------------------------------
(* identify_ingestion_file_type                                            *)

(* Variant: Scope is not among the indicators.                             *)
type1_indicators_NoScope ==
    {"Activity Type", "Month", "Year", "Quantity", "Unit", "Resource Name"}

type1_indicators ==
    {"Scope", "Activity Type", "Month", "Year", "Quantity", "Unit", "Resource Name"}

type2_indicators == {"Scope", "Activity Type", "Resource", "Units"}

MonthTokens ==
    {"Apr-24", "May-24", "Jun-24", "Jul-24", "Aug-24", "Sep-24", "Oct-24",
     "Nov-24", "Dec-24", "Jan-25", "Feb-25"}

(* any(month in col for month in [...]) on a string label.                 *)
IsMonthColumn(col) == \E m \in MonthTokens : InStr(m, col)

(* The list comprehension over the columns raises TypeError as soon as one *)
(* label is not a string (`month in col` on an int or a date).             *)
MonthScanRaises(columns) == \E i \in DOMAIN columns : ~columns[i].isstr

month_columns(columns) ==
    LET idx == Ascending({i \in DOMAIN columns : IsMonthColumn(columns[i])})
    IN  [k \in DOMAIN idx |-> columns[idx[k]]]

FileTypeError ==
    "Error identifying ingestion file type: argument of type 'int' is not iterable"

MinMonthColumns == 3

identify_ingestion_file_type(df) ==
    LET columns == df.columns
        has_facility == HasColumn(df, "Facility Name") \/ HasColumn(df, "Facility")
    IN  IF has_facility /\ \A c \in type1_indicators : HasColumn(df, c)
        THEN "Monthly Data in Rows"
        ELSE IF has_facility /\ \A c \in type2_indicators : HasColumn(df, c)
        THEN IF MonthScanRaises(columns) THEN FileTypeError
             ELSE IF Len(month_columns(columns)) >= MinMonthColumns
                  THEN "Monthly Data in Columns"
                  ELSE "Unknown"
        ELSE "Unknown"

-----------------------------------------------------------------------------
(* Results.  A dict is a record; None in place of a dict or a DataFrame is *)
(* PyNone, None in place of a cell is NoneCell.  An exception that leaves  *)
(* a function is the value Raised(e).                                      *)

PyNone == [none |-> TRUE]

NoneCell == [t |-> "none", s |-> "", n |-> 0]

Raised(e) == [raised |-> e]

IsRaised(r) == "raised" \in DOMAIN r

(* `'error' in result`                                                     *)
HasError(r) == "error" \in DOMAIN r

(* df[name] as the sequence of its cells.                                  *)
Column(df, name) == [i \in DOMAIN df.rows |-> Cell(df, df.rows[i], name)]

-----------------------------------------------------------------------------
(* compare_facility_names                                                  *)

(* Variant: the missing values are not dropped.                            *)
FacilitySet_KeepsMissing(df, name) == Range(Column(df, name))

(* set(df[name].dropna())                                                  *)
FacilitySet(df, name) == {v \in Range(Column(df, name)) : ~isnull(v)}

(* The result of the comparison once both facility columns are found.    *)
facility_counts(raw, ing, ingestion_facility_col) ==
    LET raw_facilities == FacilitySet(raw, "Facility Name")
        ingestion_facilities == FacilitySet(ing, ingestion_facility_col)
        missing_in_raw == ingestion_facilities \ raw_facilities
        missing_in_ingestion == raw_facilities \ ingestion_facilities
    IN  [raw_facilities_count |-> Cardinality(raw_facilities),
         ingestion_facilities_count |-> Cardinality(ingestion_facilities),
         common_facilities_count |->
             Cardinality(raw_facilities \cap ingestion_facilities),
         missing_in_raw |-> missing_in_raw,
         missing_in_ingestion |-> missing_in_ingestion,
         missing_in_raw_count |-> Cardinality(missing_in_raw),
         missing_in_ingestion_count |-> Cardinality(missing_in_ingestion)]

(* Variant: the alias Facility is not accepted for the ingestion file.      *)
compare_facility_names_NoAlias(raw, ing) ==
    IF ~HasColumn(raw, "Facility Name")
    THEN [error |-> "Facility Name column not found in raw data file"]
    ELSE IF HasColumn(ing, "Facility Name")
    THEN facility_counts(raw, ing, "Facility Name")
    ELSE [error |-> "Neither Facility Name nor Facility column found in ingestion file"]

(* Variant: no column check and no handler, the KeyError leaves the call.  *)
compare_facility_names_Unguarded(raw, ing) ==
    IF ~HasColumn(raw, "Facility Name") THEN Raised("KeyError")
    ELSE IF HasColumn(ing, "Facility Name")
    THEN facility_counts(raw, ing, "Facility Name")
    ELSE IF HasColumn(ing, "Facility")
    THEN facility_counts(raw, ing, "Facility")
    ELSE Raised("KeyError")

compare_facility_names(raw, ing) ==
    IF ~HasColumn(raw, "Facility Name")
    THEN [error |-> "Facility Name column not found in raw data file"]
    ELSE IF HasColumn(ing, "Facility Name")
    THEN facility_counts(raw, ing, "Facility Name")
    ELSE IF HasColumn(ing, "Facility")
    THEN facility_counts(raw, ing, "Facility")
    ELSE [error |-> "Neither Facility Name nor Facility column found in ingestion file"]

-----------------------------------------------------------------------------
(* map_ghg_emissions_data                                                  *)

RawKeyColumns == {"Facility Name", "Resource Name", "Month", "Year"}

IngRowColumns == {"Resource Name", "Month", "Year", "Quantity"}

(* Variant: the mask leaves the facility out.                              *)
raw_match_NoFacility(raw, facility_name, resource_name, month, year) ==
    Ascending({j \in DOMAIN raw.rows :
        /\ PyEq(Cell(raw, raw.rows[j], "Resource Name"), resource_name)
        /\ PyEq(Cell(raw, raw.rows[j], "Month"), month)
        /\ PyEq(Cell(raw, raw.rows[j], "Year"), year)})

(* The positions of the raw rows selected by the boolean mask on the four  *)
(* key columns, in raw's row order.                                        *)
raw_match(raw, facility_name, resource_name, month, year) ==
    Ascending({j \in DOMAIN raw.rows :
        /\ PyEq(Cell(raw, raw.rows[j], "Facility Name"), facility_name)
        /\ PyEq(Cell(raw, raw.rows[j], "Resource Name"), resource_name)
        /\ PyEq(Cell(raw, raw.rows[j], "Month"), month)
        /\ PyEq(Cell(raw, raw.rows[j], "Year"), year)})

(* Variant: the last selected row is taken.                                *)
iloc0_Last(match) == match[Len(match)]

(* raw_match.iloc[0]: the first selected row.                              *)
iloc0(match) == match[1]

MapStart ==
    [comparison_results |-> <<>>, matched_rows |-> 0, unmatched_ingestion_rows |-> 0,
     quantity_matches |-> 0, quantity_mismatches |-> 0]

(* Variant: a quantity mismatch is recorded but not counted.               *)
Matched_MismatchNotCounted(acc, record, eq) ==
    [comparison_results |->
         Append(acc.comparison_results,
                record @@ [match_status |-> IF eq THEN "Match" ELSE "Mismatch"]),
     matched_rows |-> acc.matched_rows + 1,
     unmatched_ingestion_rows |-> acc.unmatched_ingestion_rows,
     quantity_matches |-> acc.quantity_matches + (IF eq THEN 1 ELSE 0),
     quantity_mismatches |-> acc.quantity_mismatches]

(* The loop state after a row that has a match in raw: eq is the outcome  *)
(* of raw_quantity == ingestion_quantity.                                  *)
Matched(acc, record, eq) ==
    [comparison_results |->
         Append(acc.comparison_results,
                record @@ [match_status |-> IF eq THEN "Match" ELSE "Mismatch"]),
     matched_rows |-> acc.matched_rows + 1,
     unmatched_ingestion_rows |-> acc.unmatched_ingestion_rows,
     quantity_matches |-> acc.quantity_matches + (IF eq THEN 1 ELSE 0),
     quantity_mismatches |-> acc.quantity_mismatches + (IF eq THEN 0 ELSE 1)]

(* The loop state after a row without a match in raw.                      *)
Unmatched(acc, record) ==
    [comparison_results |->
         Append(acc.comparison_results,
                record @@ [match_status |-> "No Match in Raw Data"]),
     matched_rows |-> acc.matched_rows,
     unmatched_ingestion_rows |-> acc.unmatched_ingestion_rows + 1,
     quantity_matches |-> acc.quantity_matches,
     quantity_mismatches |-> acc.quantity_mismatches]

(* One pass of the loop body for ingestion row k, from the loop state acc. *)
MapRow(raw, ing, fcol, k, acc) ==
    IF ~HasColumn(ing, fcol) \/ \E c \in IngRowColumns : ~HasColumn(ing, c)
    THEN Raised("KeyError")
    ELSE
    LET ingestion_row == ing.rows[k]
        facility_name == Cell(ing, ingestion_row, fcol)
        resource_name == Cell(ing, ingestion_row, "Resource Name")
        month == Cell(ing, ingestion_row, "Month")
        year == Cell(ing, ingestion_row, "Year")
        ingestion_quantity == Cell(ing, ingestion_row, "Quantity")
        key == [facility_name |-> facility_name,
                resource_name |-> resource_name,
                month |-> month,
                year |-> year,
                ingestion_quantity |-> ingestion_quantity]
    IN  IF \E c \in RawKeyColumns : ~HasColumn(raw, c)
        THEN Raised("KeyError")
        ELSE
        LET match == raw_match(raw, facility_name, resource_name, month, year)
        IN  IF match # <<>>
            THEN IF ~HasColumn(raw, "Quantity")
                 THEN Raised("KeyError")
                 ELSE
                 LET raw_quantity == Cell(raw, raw.rows[iloc0(match)], "Quantity")
                 IN  IF SubRaises(raw_quantity, ingestion_quantity)
                     THEN Raised("TypeError")
                     ELSE Matched(acc,
                                  key @@ [raw_quantity |-> raw_quantity,
                                          difference |->
                                              PySub(raw_quantity, ingestion_quantity)],
                                  PyEq(raw_quantity, ingestion_quantity))
            ELSE Unmatched(acc,
                           key @@ [raw_quantity |-> NoneCell, difference |-> NoneCell])

(* The loop over the ingestion rows 1..k; an exception ends it.            *)
RECURSIVE MapLoop(_, _, _, _)
MapLoop(raw, ing, fcol, k) ==
    IF k = 0 THEN MapStart
    ELSE LET acc == MapLoop(raw, ing, fcol, k - 1)
         IN  IF IsRaised(acc) THEN acc ELSE MapRow(raw, ing, fcol, k, acc)

map_ghg_emissions_data(raw, ing, ingestion_type) ==
    IF ingestion_type = "Monthly Data in Rows"
    THEN LET ingestion_facility_col ==
                 IF HasColumn(ing, "Facility Name") THEN "Facility Name" ELSE "Facility"
             acc == MapLoop(raw, ing, ingestion_facility_col, Len(ing.rows))
         IN  IF IsRaised(acc)
             THEN [error |-> "Error mapping GHG emissions data: " \o acc.raised]
             ELSE [ingestion_type |-> "Monthly Data in Rows",
                   total_ingestion_rows |-> Len(ing.rows),
                   matched_rows |-> acc.matched_rows,
                   unmatched_rows |-> acc.unmatched_ingestion_rows,
                   quantity_matches |-> acc.quantity_matches,
                   quantity_mismatches |-> acc.quantity_mismatches,
                   comparison_results |-> acc.comparison_results]
    ELSE IF ingestion_type = "Monthly Data in Columns"
    THEN [ingestion_type |-> "Monthly Data in Columns",
          status |-> "Monthly Data in Columns mapping ready for implementation"]
    ELSE [error |-> "Unknown ingestion file type: " \o ingestion_type]

-----------------------------------------------------------------------------
(* compare_ghg_emissions_data                                              *)

compare_ghg_emissions_data(raw, ing, ingestion_type) ==
    LET mapping_result == map_ghg_emissions_data(raw, ing, ingestion_type)
    IN  IF IsRaised(mapping_result)
        THEN [error |-> "Error comparing GHG emissions data: " \o mapping_result.raised]
        ELSE IF HasError(mapping_result) THEN mapping_result
        ELSE [resource_type |-> "GHG Emissions",
              ingestion_type |-> ingestion_type,
              comparison_status |-> "Completed",
              mapping |-> mapping_result]

-----------------------------------------------------------------------------
(* compare_dataframes                                                      *)

basic_info(raw, ing) ==
    [raw_data_rows |-> Len(raw.rows),
     ingestion_rows |-> Len(ing.rows),
     raw_data_cols |-> Len(raw.columns),
     ingestion_cols |-> Len(ing.columns),
     common_columns |-> Range(raw.columns) \cap Range(ing.columns),
     raw_data_only_columns |-> Range(raw.columns) \ Range(ing.columns),
     ingestion_only_columns |-> Range(ing.columns) \ Range(raw.columns),
     row_difference |-> Len(raw.rows) - Len(ing.rows),
     missing_in_ingestion |->
         IF Len(raw.rows) > Len(ing.rows) THEN Len(raw.rows) - Len(ing.rows) ELSE 0]

(* Variant: the comparison runs only for a recognized file type.           *)
resource_specific_comparison_Recognized(raw, ing, resource_type, ingestion_file_type) ==
    IF /\ resource_type = "GHG Emissions"
       /\ ingestion_file_type \in {"Monthly Data in Rows", "Monthly Data in Columns"}
    THEN compare_ghg_emissions_data(raw, ing, ingestion_file_type)
    ELSE PyNone

(* The resource-specific comparison, None unless the resource type is GHG  *)
(* Emissions.                                                              *)
resource_specific_comparison(raw, ing, resource_type, ingestion_file_type) ==
    IF resource_type = "GHG Emissions"
    THEN compare_ghg_emissions_data(raw, ing, ingestion_file_type)
    ELSE PyNone

compare_dataframes(raw, ing) ==
    LET facility_comparison == compare_facility_names(raw, ing)
        resource_type == identify_resource_type(ing)
        ingestion_file_type == identify_ingestion_file_type(ing)
        resource_comparison ==
            resource_specific_comparison(raw, ing, resource_type, ingestion_file_type)
        result == basic_info(raw, ing) @@
                  [facility_comparison |-> facility_comparison,
                   resource_type |-> resource_type,
                   ingestion_file_type |-> ingestion_file_type]
    IN  IF IsRaised(facility_comparison) THEN facility_comparison
        ELSE IF IsRaised(resource_comparison) THEN resource_comparison
        ELSE IF resource_comparison # PyNone
             THEN result @@ [resource_comparison |-> resource_comparison]
             ELSE result

-----------------------------------------------------------------------------
(* analyze_data_quality                                                    *)

(* The cells of row i at the column positions idx.                         *)
Projection(df, idx, i) == [k \in DOMAIN idx |-> df.rows[i][idx[k]]]

(* df.duplicated(subset): the rows equal to an earlier row on the subset   *)
(* (keep='first'); missing values compare equal here.                      *)
duplicated(df, idx) ==
    {i \in DOMAIN df.rows :
        \E j \in 1..(i - 1) : Projection(df, idx, j) = Projection(df, idx, i)}

(* Variant: keep=False is left out, the first occurrence is not selected.  *)
duplicated_keep_false_KeepFirst(df, idx) ==
    {i \in DOMAIN df.rows :
        \E j \in 1..(i - 1) : Projection(df, idx, j) = Projection(df, idx, i)}

(* df.duplicated(subset, keep=False): the rows equal to any other row.     *)
duplicated_keep_false(df, idx) ==
    {i \in DOMAIN df.rows :
        \E j \in DOMAIN df.rows :
            j # i /\ Projection(df, idx, j) = Projection(df, idx, i)}

(* df[mask]: the selected rows with their original index.                  *)
SubFrame(df, S) ==
    LET index == Ascending(S)
    IN  [columns |-> df.columns,
         index |-> index,
         rows |-> [k \in DOMAIN index |-> df.rows[index[k]]]]

(* df[col].isnull().sum() for the column at position c.                    *)
null_count(df, c) == Cardinality({i \in DOMAIN df.rows : isnull(df.rows[i][c])})

(* Variant: no column is left out.                                         *)
ExcludedColumns_Nothing(df, ingestion_type) == {}

(* The labels left out of the null and duplicate checks, by file type.     *)
ExcludedColumns(df, ingestion_type) ==
    IF ingestion_type = "Monthly Data in Rows" THEN {Label("Quantity")}
    ELSE IF ingestion_type = "Monthly Data in Columns"
         THEN Range(month_columns(df.columns))
         ELSE {}

DuplicateNote(ingestion_type) ==
    IF ingestion_type = "Monthly Data in Rows"
    THEN "duplicate rows (same values in all columns except Quantity)"
    ELSE IF ingestion_type = "Monthly Data in Columns"
         THEN "duplicate rows (same values in all columns except month columns)"
         ELSE "completely duplicate rows"

analyze_data_quality(raw, ing) ==
    LET ingestion_type == identify_ingestion_file_type(ing)
        excluded == ExcludedColumns(ing, ingestion_type)
        columns_to_check ==
            Ascending({c \in DOMAIN ing.columns : ing.columns[c] \notin excluded})
        with_nulls ==
            Ascending({c \in Range(columns_to_check) : null_count(ing, c) > 0})
        null_issues ==
            [k \in DOMAIN with_nulls |->
                [null_count |-> null_count(ing, with_nulls[k]),
                 col |-> ing.columns[with_nulls[k]]]]
        duplicates == Cardinality(duplicated(ing, columns_to_check))
    IN  IF duplicates > 0
        THEN [quality_issues |->
                  Append(null_issues,
                         [duplicates |-> duplicates,
                          text |-> DuplicateNote(ingestion_type)]),
              duplicate_rows |->
                  SubFrame(ing, duplicated_keep_false(ing, columns_to_check))]
        ELSE [quality_issues |-> null_issues, duplicate_rows |-> PyNone]

-----------------------------------------------------------------------------
(* generate_comparison_report                                              *)

find_data_discrepancies(raw, ing) == <<>>

(* Variant: the timestamp keeps the fraction of the second.                *)
strftime_WithFraction(now) == now

(* The clock counts half seconds; "%Y-%m-%d %H:%M:%S" keeps whole seconds. *)
TicksPerSecond == 2

strftime(now) == now \div TicksPerSecond

generate_comparison_report(raw, ing, now) ==
    LET basic_comparison == compare_dataframes(raw, ing)
    IN  IF IsRaised(basic_comparison) THEN basic_comparison
        ELSE [timestamp |-> strftime(now),
              basic_comparison |-> basic_comparison,
              data_quality_issues |-> analyze_data_quality(raw, ing),
              discrepancies |-> find_data_discrepancies(raw, ing)]

-----------------------------------------------------------------------------
(* The uploaded sheets.  A layout is a sequence of column labels with the  *)
(* rows a sheet of that layout may hold.                                   *)

Labels(names) == [i \in DOMAIN names |-> Label(names[i])]

SeqsUpTo(S, n) == UNION {[1..k -> S] : k \in 0..n}

Tables(layout, n) ==
    {[columns |-> layout.columns, rows |-> r] : r \in SeqsUpTo(layout.rowset, n)}

PlantA == Str("Plant A")

PlantB == Str("Plant B")

PlantC == Str("Plant C")

(* Ingestion sheet with monthly data in rows, facility under its alias.    *)
IngRowsLayout ==
    [columns |-> Labels(<<"Facility", "Scope", "Activity Type", "Month", "Year",
                          "Quantity", "Unit", "Resource Name">>),
     rowset |-> {<<f[1], Str("Scope 1"), Str("Fuel"), Str("Apr"), f[2],
                   f[3], Str("L"), Str("Diesel")>> :
                 f \in {<<PlantA, Num(2024), Num(10)>>, <<PlantA, Num(2024), Num(12)>>,
                        <<PlantA, Num(2024), NaN>>, <<PlantB, Num(2024), Num(10)>>,
                        <<NaN, Num(2024), Num(10)>>, <<PlantA, NaN, Num(10)>>}}]

(* Ingestion sheet with monthly data in columns.                           *)
IngColsLayout ==
    [columns |-> Labels(<<"Facility Name", "Scope", "Activity Type", "Resource",
                          "Units", "Apr-24", "May-24", "Jun-24">>),
     rowset |-> {<<f[1], Str("Scope 1"), Str("Fuel"), Str("Diesel"), Str("L"),
                   f[2], Num(5), Num(5)>> :
                 f \in {<<PlantA, Num(5)>>, <<PlantA, NaN>>, <<NaN, Num(5)>>}}]

(* Ingestion sheet of no recognized type that has a Scope column.          *)
IngScopeOnlyLayout ==
    [columns |-> Labels(<<"Facility", "Scope", "Quantity">>),
     rowset |-> {<<f[1], Str("Scope 1"), f[2]>> :
                 f \in {<<PlantA, Num(10)>>, <<PlantA, NaN>>, <<NaN, Num(10)>>}}]

(* Ingestion sheet with neither a facility column nor a Scope column.      *)
IngOtherLayout ==
    [columns |-> Labels(<<"Site", "Quantity">>),
     rowset |-> {<<PlantA, Num(10)>>, <<NaN, Num(10)>>}]

(* Ingestion sheet with monthly columns and a numeric header cell.         *)
IngIntHeaderLayout ==
    [columns |-> Labels(<<"Facility Name", "Scope", "Activity Type", "Resource",
                          "Units", "Apr-24", "May-24", "Jun-24">>) \o <<IntLabel>>,
     rowset |-> {<<f, Str("Scope 1"), Str("Fuel"), Str("Diesel"), Str("L"),
                   Num(5), Num(5), Num(5), Num(7)>> : f \in {PlantA, NaN}}]

RawFullLayout ==
    [columns |-> Labels(<<"Facility Name", "Resource Name", "Month", "Year",
                          "Quantity">>),
     rowset |-> {<<f[1], Str("Diesel"), Str("Apr"), f[2], f[3]>> :
                 f \in {<<PlantA, Num(2024), Num(10)>>, <<PlantA, Num(2024), Num(12)>>,
                        <<PlantC, Num(2024), Num(10)>>, <<NaN, Num(2024), Num(10)>>,
                        <<PlantA, Num(2024), Str("ten")>>,
                        <<PlantA, NaN, Num(10)>>}}]

(* Raw sheet whose facility column carries the alias.                      *)
RawAliasLayout ==
    [columns |-> Labels(<<"Facility", "Resource Name", "Month", "Year", "Quantity">>),
     rowset |-> {<<PlantA, Str("Diesel"), Str("Apr"), Num(2024), Num(10)>>}]

(* Raw sheet without a Quantity column.                                    *)
RawNoQuantityLayout ==
    [columns |-> Labels(<<"Facility Name", "Resource Name", "Month", "Year">>),
     rowset |-> {<<PlantA, Str("Diesel"), Str("Apr"), Num(2024)>>}]

IngestionLayouts ==
    {IngRowsLayout, IngColsLayout, IngScopeOnlyLayout, IngOtherLayout,
     IngIntHeaderLayout}

RawLayouts == {RawFullLayout, RawAliasLayout, RawNoQuantityLayout}

IngestionTables == UNION {Tables(l, MaxIngRows) : l \in IngestionLayouts}

RawTables == UNION {Tables(l, MaxRawRows) : l \in RawLayouts}

-----------------------------------------------------------------------------
(* main(): both sheets are read, then compare_dataframes and               *)
(* analyze_data_quality run on them in this order.                         *)

Init ==
    /\ raw_data_df \in RawTables
    /\ ingestion_df \in IngestionTables
    /\ pc = "loaded"
    /\ comparison_results = PyNone
    /\ quality_data = PyNone
    /\ clock = 0
    /\ report = PyNone

CompareDataframes ==
    /\ pc = "loaded"
    /\ comparison_results' = compare_dataframes(raw_data_df, ingestion_df)
    /\ pc' = "compared"
    /\ UNCHANGED <<raw_data_df, ingestion_df, quality_data, clock, report>>

AnalyzeDataQuality ==
    /\ pc = "compared"
    /\ ~IsRaised(comparison_results)
    /\ quality_data' = analyze_data_quality(raw_data_df, ingestion_df)
    /\ pc' = "analyzed"
    /\ UNCHANGED <<raw_data_df, ingestion_df, comparison_results, clock, report>>

Next == CompareDataframes \/ AnalyzeDataQuality

Spec == Init /\ [][Next]_vars

-----------------------------------------------------------------------------
(* Sheets for the classification: the ingestion columns range over column  *)
(* sets built from the labels the classifier looks at, month columns, an   *)
(* unrelated column and a header that is not a string; each sheet holds    *)
(* one row.                                                                *)

Universe ==
    <<Label("Facility Name"), Label("Facility"), Label("Scope"),
      Label("Activity Type"), Label("Month"), Label("Year"), Label("Quantity"),
      Label("Unit"), Label("Resource Name"), Label("Resource"), Label("Units"),
      Label("Apr-24"), Label("May-24"), LabelOf(<<"Jun-24", " Total">>),
      Label("Feb-25"), Label("Notes"), IntLabel>>

Type1Rest == {"Month", "Year", "Quantity", "Unit", "Resource Name"}

FacilityChoices ==
    SUBSET {Label("Facility Name"), Label("Facility")}

SharedChoices == SUBSET {Label("Scope"), Label("Activity Type")}

(* All of the remaining type 1 columns, all but one of them, or none.      *)
Type1Choices ==
    {{}} \cup {{Label(c) : c \in Type1Rest \ D} : D \in {{}} \cup {{d} : d \in Type1Rest}}

Type2Choices == SUBSET {Label("Resource"), Label("Units")}

MonthChoices ==
    {{},
     {Label("Apr-24"), Label("May-24")},
     {Label("Apr-24"), Label("May-24"), LabelOf(<<"Jun-24", " Total">>)},
     {Label("Apr-24"), Label("May-24"), LabelOf(<<"Jun-24", " Total">>), Label("Feb-25")}}

ExtraChoices == SUBSET {Label("Notes"), IntLabel}

SchemaColumnSets ==
    {f \cup c \cup t1 \cup t2 \cup m \cup x :
        f \in FacilityChoices, c \in SharedChoices, t1 \in Type1Choices,
        t2 \in Type2Choices, m \in MonthChoices, x \in ExtraChoices}

(* The labels of S in the order of Universe, or in the opposite order.     *)
ColumnsOf(S, reversed) ==
    LET idx == Ascending({i \in DOMAIN Universe : Universe[i] \in S})
        n == Len(idx)
    IN  [k \in 1..n |-> Universe[idx[IF reversed THEN n + 1 - k ELSE k]]]

DefaultCell(lab) ==
    IF lab \in {Label("Facility Name"), Label("Facility")} THEN PlantA
    ELSE IF lab = Label("Year") THEN Num(2024)
    ELSE IF lab = Label("Quantity") THEN Num(10)
    ELSE IF lab = Label("Month") THEN Str("Apr")
    ELSE IF lab = Label("Resource Name") THEN Str("Diesel")
    ELSE IF lab = Label("Notes") THEN NaN
    ELSE Num(5)

SchemaTable(S, reversed) ==
    LET columns == ColumnsOf(S, reversed)
    IN  [columns |-> columns,
         rows |-> IF columns = <<>> THEN <<>>
                  ELSE <<[k \in DOMAIN columns |-> DefaultCell(columns[k])]>>]

SchemaRawTable ==
    [columns |-> RawFullLayout.columns,
     rows |-> <<<<PlantA, Str("Diesel"), Str("Apr"), Num(2024), Num(10)>>>>]

InitSchema ==
    /\ raw_data_df = SchemaRawTable
    /\ ingestion_df \in {SchemaTable(S, r) : S \in SchemaColumnSets, r \in BOOLEAN}
    /\ pc = "loaded"
    /\ comparison_results = PyNone
    /\ quality_data = PyNone
    /\ clock = 0
    /\ report = PyNone

SpecSchema == InitSchema /\ [][Next]_vars

-----------------------------------------------------------------------------
(* generate_comparison_report called again and again on the same sheets,   *)
(* while the wall clock advances.                                          *)

MaxReportRows == 1

InitReport ==
    /\ raw_data_df \in UNION {Tables(l, MaxReportRows) : l \in RawLayouts}
    /\ ingestion_df \in UNION {Tables(l, MaxReportRows) : l \in IngestionLayouts}
    /\ pc = "loaded"
    /\ comparison_results = PyNone
    /\ quality_data = PyNone
    /\ clock = 0
    /\ report = PyNone

GenerateComparisonReport ==
    /\ report' = generate_comparison_report(raw_data_df, ingestion_df, clock)
    /\ UNCHANGED <<raw_data_df, ingestion_df, pc, comparison_results, quality_data,
                   clock>>

Tick ==
    /\ clock < MaxClock
    /\ clock' = clock + 1
    /\ UNCHANGED <<raw_data_df, ingestion_df, pc, comparison_results, quality_data,
                   report>>

NextReport == GenerateComparisonReport \/ Tick

SpecReport == InitReport /\ [][NextReport]_vars

-----------------------------------------------------------------------------
(* Properties.  The statements below are written from the tables and the   *)
(* results held in the state, not from the operators above.                *)

Rows == "Monthly Data in Rows"

Cols == "Monthly Data in Columns"

HasLabel(df, name) == \E c \in DOMAIN df.columns : df.columns[c] = Label(name)

(* The cell of row i of df under the column called name.                   *)
At(df, i, name) ==
    df.rows[i][CHOOSE c \in DOMAIN df.columns : df.columns[c] = Label(name)]

Compared == pc \in {"compared", "analyzed"}

Analyzed == pc = "analyzed"

(* The record-matching result with counters, when the report has one.      *)
HasCounters ==
    /\ Compared
    /\ "resource_comparison" \in DOMAIN comparison_results
    /\ "mapping" \in DOMAIN comparison_results.resource_comparison
    /\ "matched_rows" \in DOMAIN comparison_results.resource_comparison.mapping

Mapping == comparison_results.resource_comparison.mapping

(* C1: whenever the record matcher returns counters, matched_rows +         *)
(* unmatched_rows is the number of ingestion rows (total_ingestion_rows)    *)
(* and quantity_matches + quantity_mismatches is matched_rows.              *)
C1_CountersAddUp ==
    HasCounters =>
        /\ Mapping.total_ingestion_rows = Len(ingestion_df.rows)
        /\ Mapping.matched_rows + Mapping.unmatched_rows = Mapping.total_ingestion_rows
        /\ Mapping.quantity_matches + Mapping.quantity_mismatches = Mapping.matched_rows

C1_Witness ==
    /\ HasCounters
    /\ Mapping.unmatched_rows = 1
    /\ Mapping.quantity_mismatches = 1

-----------------------------------------------------------------------------
(* The schema kind by the rules of the classifier: a label that is not a    *)
(* string contains no month token.                                         *)

ContainsMonthToken(lab) ==
    lab.isstr /\ \E k \in DOMAIN lab.parts : lab.parts[k] \in MonthTokens

SchemaByRules(S) ==
    LET facility == Label("Facility Name") \in S \/ Label("Facility") \in S
        all(names) == \A c \in names : Label(c) \in S
    IN  IF facility /\ all({"Scope", "Activity Type", "Month", "Year", "Quantity",
                            "Unit", "Resource Name"})
        THEN Rows
        ELSE IF /\ facility
                /\ all({"Scope", "Activity Type", "Resource", "Units"})
                /\ Cardinality({lab \in S : ContainsMonthToken(lab)}) >= 3
        THEN Cols
        ELSE "Unknown"

(* The identifying columns of the ingestion table: all but Quantity for    *)
(* monthly rows, all but the month columns for monthly columns, all        *)
(* columns otherwise.                                                      *)
Identifying ==
    LET kind == identify_ingestion_file_type(ingestion_df)
    IN  {c \in DOMAIN ingestion_df.columns :
            /\ kind = Rows => ingestion_df.columns[c] # Label("Quantity")
            /\ kind = Cols => ~ContainsMonthToken(ingestion_df.columns[c])}

SameIdentity(i, j) ==
    \A c \in Identifying : ingestion_df.rows[i][c] = ingestion_df.rows[j][c]

(* The rows that belong to a duplicate group, every occurrence included.   *)
InDuplicateGroup ==
    {i \in DOMAIN ingestion_df.rows :
        \E j \in DOMAIN ingestion_df.rows : j # i /\ SameIdentity(i, j)}

DuplicateIssues ==
    {k \in DOMAIN quality_data.quality_issues :
        "duplicates" \in DOMAIN quality_data.quality_issues[k]}

(* C3: the number in the duplicate issue message is the number of rows     *)
(* that belong to a duplicate group, every occurrence counted.             *)
C3_DuplicateMessageCountsAllRows ==
    Analyzed =>
        \A k \in DuplicateIssues :
            quality_data.quality_issues[k].duplicates = Cardinality(InDuplicateGroup)

(* C4: duplicate_rows holds exactly the ingestion rows whose identifying   *)
(* projection occurs at least twice, the first occurrence included, and is *)
(* None when there is no such row.                                         *)
C4_DuplicateRowsAreAllOccurrences ==
    Analyzed =>
        IF InDuplicateGroup = {}
        THEN quality_data.duplicate_rows = PyNone
        ELSE /\ quality_data.duplicate_rows # PyNone
             /\ LET d == quality_data.duplicate_rows
                IN  /\ {d.index[k] : k \in DOMAIN d.index} = InDuplicateGroup
                    /\ Len(d.index) = Cardinality(InDuplicateGroup)
                    /\ DOMAIN d.rows = DOMAIN d.index
                    /\ \A k \in DOMAIN d.index : d.rows[k] = ingestion_df.rows[d.index[k]]

C4_Witness ==
    /\ Analyzed
    /\ quality_data.duplicate_rows # PyNone
    /\ Len(quality_data.duplicate_rows.rows) = 2
    /\ quality_data.duplicate_rows.rows[1] # quality_data.duplicate_rows.rows[2]

-----------------------------------------------------------------------------
(* The distinct non-missing facility values of a table.                    *)
Facilities(df, name) ==
    {At(df, i, name) : i \in DOMAIN df.rows} \ {NaN}

IngestionFacilityColumn ==
    IF HasLabel(ingestion_df, "Facility Name") THEN "Facility Name" ELSE "Facility"

FacilityFails ==
    \/ ~HasLabel(raw_data_df, "Facility Name")
    \/ ~HasLabel(ingestion_df, "Facility Name") /\ ~HasLabel(ingestion_df, "Facility")

(* C6: when the facility comparison succeeds, the common set, the raw-only *)
(* set and the ingestion-only set are pairwise disjoint, common + raw-only *)
(* is the raw facility count and common + ingestion-only the ingestion     *)
(* facility count, the facility sets being the distinct non-missing values.*)
C6_FacilityCountsPartition ==
    Compared /\ ~HasError(comparison_results.facility_comparison) =>
        LET fc == comparison_results.facility_comparison
            R == Facilities(raw_data_df, "Facility Name")
            I == Facilities(ingestion_df, IngestionFacilityColumn)
        IN  /\ fc.raw_facilities_count = Cardinality(R)
            /\ fc.ingestion_facilities_count = Cardinality(I)
            /\ fc.common_facilities_count = Cardinality(R \cap I)
            /\ fc.missing_in_ingestion \subseteq R
            /\ fc.missing_in_raw \subseteq I
            /\ fc.missing_in_ingestion \cap fc.missing_in_raw = {}
            /\ fc.missing_in_ingestion \cap (R \cap I) = {}
            /\ fc.missing_in_raw \cap (R \cap I) = {}
            /\ fc.missing_in_ingestion_count = Cardinality(fc.missing_in_ingestion)
            /\ fc.missing_in_raw_count = Cardinality(fc.missing_in_raw)
            /\ fc.common_facilities_count + fc.missing_in_ingestion_count
                   = fc.raw_facilities_count
            /\ fc.common_facilities_count + fc.missing_in_raw_count
                   = fc.ingestion_facilities_count

C6_Witness ==
    /\ Compared
    /\ ~HasError(comparison_results.facility_comparison)
    /\ comparison_results.facility_comparison.common_facilities_count = 1
    /\ comparison_results.facility_comparison.missing_in_raw = {PlantB}
    /\ comparison_results.facility_comparison.missing_in_ingestion = {PlantC}

(* C9: the facility comparison is an error result, with nothing but the    *)
(* error, exactly when raw has no Facility Name column or ingestion has    *)
(* neither Facility Name nor Facility; Facility alone does not do for raw. *)
C9_FacilityErrorIffColumnMissing ==
    Compared =>
        /\ HasError(comparison_results.facility_comparison) <=> FacilityFails
        /\ HasError(comparison_results.facility_comparison)
               => DOMAIN comparison_results.facility_comparison = {"error"}
        /\ HasLabel(raw_data_df, "Facility") /\ ~HasLabel(raw_data_df, "Facility Name")
               => HasError(comparison_results.facility_comparison)

C9_Witness ==
    /\ Compared
    /\ HasLabel(raw_data_df, "Facility")
    /\ HasLabel(ingestion_df, "Facility")
    /\ HasError(comparison_results.facility_comparison)

-----------------------------------------------------------------------------
ReportFields ==
    {"raw_data_rows", "ingestion_rows", "raw_data_cols", "ingestion_cols",
     "common_columns", "raw_data_only_columns", "ingestion_only_columns",
     "row_difference", "missing_in_ingestion", "facility_comparison",
     "resource_type", "ingestion_file_type"}

(* Record matching fails: the ingestion table is in monthly rows, has a    *)
(* row, and raw lacks one of the key columns.                              *)
MatchingFails ==
    /\ SchemaByRules({ingestion_df.columns[c] : c \in DOMAIN ingestion_df.columns}) = Rows
    /\ ingestion_df.rows # <<>>
    /\ \E c \in {"Facility Name", "Resource Name", "Month", "Year"} :
           ~HasLabel(raw_data_df, c)

(* C10: compare_dataframes returns a complete report whatever fails: a     *)
(* failed facility comparison is an error in facility_comparison next to   *)
(* the shape statistics, schema kind and resource kind, and a failed       *)
(* record matching is an error in resource_comparison.                     *)
C10_ReportSurvivesFailures ==
    Compared =>
        /\ ~IsRaised(comparison_results)
        /\ ReportFields \subseteq DOMAIN comparison_results
        /\ FacilityFails =>
               /\ HasError(comparison_results.facility_comparison)
               /\ comparison_results.raw_data_rows = Len(raw_data_df.rows)
               /\ comparison_results.ingestion_rows = Len(ingestion_df.rows)
               /\ comparison_results.raw_data_cols = Len(raw_data_df.columns)
               /\ comparison_results.ingestion_cols = Len(ingestion_df.columns)
               /\ comparison_results.resource_type =
                      IF HasLabel(ingestion_df, "Scope") THEN "GHG Emissions"
                      ELSE "Unknown"
               /\ comparison_results.ingestion_file_type
                      \in {Rows, Cols, "Unknown", FileTypeError}
               /\ (\A c \in DOMAIN ingestion_df.columns : ingestion_df.columns[c].isstr)
                      => comparison_results.ingestion_file_type =
                             SchemaByRules({ingestion_df.columns[c] :
                                                c \in DOMAIN ingestion_df.columns})
        /\ MatchingFails =>
               /\ "resource_comparison" \in DOMAIN comparison_results
               /\ HasError(comparison_results.resource_comparison)

C10_Witness ==
    /\ Compared
    /\ FacilityFails
    /\ MatchingFails
    /\ HasError(comparison_results.facility_comparison)
    /\ HasError(comparison_results.resource_comparison)
    /\ comparison_results.ingestion_file_type = Rows

-----------------------------------------------------------------------------
-----------------------------------------------------------------------------
(* C5, as stated: the report has a resource_comparison section exactly     *)
(* when the resource kind is GHG Emissions and the schema kind is one of   *)
(* the two recognized ones.                                                *)
C5_MatcherOnlyForRecognizedSchema ==
    Compared =>
        ("resource_comparison" \in DOMAIN comparison_results <=>
            /\ comparison_results.resource_type = "GHG Emissions"
            /\ comparison_results.ingestion_file_type \in {Rows, Cols})

(* C5, amended: the report has a resource_comparison section exactly when  *)
(* the ingestion table has a Scope column (resource kind GHG Emissions);   *)
(* when the schema kind is not a recognized one the section is the error   *)
(* "Unknown ingestion file type: ..." and nothing else.                    *)
C5_MatcherForEveryScopeTable ==
    Compared =>
        /\ "resource_comparison" \in DOMAIN comparison_results
               <=> HasLabel(ingestion_df, "Scope")
        /\ HasLabel(ingestion_df, "Scope")
               <=> comparison_results.resource_type = "GHG Emissions"
        /\ /\ HasLabel(ingestion_df, "Scope")
           /\ comparison_results.ingestion_file_type \notin {Rows, Cols}
           => comparison_results.resource_comparison =
                  [error |-> "Unknown ingestion file type: "
                                 \o comparison_results.ingestion_file_type]

C5_Witness ==
    /\ Compared
    /\ HasLabel(ingestion_df, "Scope")
    /\ comparison_results.ingestion_file_type = "Unknown"
    /\ HasError(comparison_results.resource_comparison)

-----------------------------------------------------------------------------
IngestionLabels == {ingestion_df.columns[c] : c \in DOMAIN ingestion_df.columns}

Swap(columns, i, j) ==
    [k \in DOMAIN columns |->
        IF k = i THEN columns[j] ELSE IF k = j THEN columns[i] ELSE columns[k]]

WithColumns(df, columns) == [columns |-> columns, rows |-> <<>>]

(* C7: the schema kind is the one the rules give for the set of column     *)
(* labels (monthly rows before monthly columns, Unknown otherwise); it     *)
(* does not change when two columns change places or when a column is      *)
(* added that is unrelated and holds no month token.                       *)
C7_SchemaFollowsRules ==
    Compared =>
        /\ comparison_results.ingestion_file_type = SchemaByRules(IngestionLabels)
        /\ \A i, j \in DOMAIN ingestion_df.columns :
               identify_ingestion_file_type(
                   WithColumns(ingestion_df, Swap(ingestion_df.columns, i, j)))
               = comparison_results.ingestion_file_type
        /\ \A extra \in {Label("Notes"), IntLabel} \ IngestionLabels :
               identify_ingestion_file_type(
                   WithColumns(ingestion_df, Append(ingestion_df.columns, extra)))
               = comparison_results.ingestion_file_type

(* C8: classifying never raises and gives one of the three schema kinds.   *)
C8_SchemaIsOneOfThree ==
    Compared =>
        /\ ~IsRaised(comparison_results)
        /\ comparison_results.ingestion_file_type \in {Rows, Cols, "Unknown"}

-----------------------------------------------------------------------------
(* Record matching, stated on the tables.  Two key cells are equal when    *)
(* neither is missing and they hold the same value.                        *)

SameKeyCell(a, b) == a # NaN /\ b # NaN /\ a = b

(* The raw rows whose key equals the key of ingestion row i.               *)
KeyMatches(i) ==
    {j \in DOMAIN raw_data_df.rows :
        /\ SameKeyCell(At(raw_data_df, j, "Facility Name"),
                       At(ingestion_df, i, IngestionFacilityColumn))
        /\ SameKeyCell(At(raw_data_df, j, "Resource Name"),
                       At(ingestion_df, i, "Resource Name"))
        /\ SameKeyCell(At(raw_data_df, j, "Month"), At(ingestion_df, i, "Month"))
        /\ SameKeyCell(At(raw_data_df, j, "Year"), At(ingestion_df, i, "Year"))}

Record(i) == Mapping.comparison_results[i]

NoMatchInRaw == "No Match in Raw Data"

(* C11: with monthly rows, the record of an ingestion row has status       *)
(* 'No Match in Raw Data' exactly when no raw row has a key equal to the   *)
(* row's key; its raw quantity and difference are then None and its        *)
(* ingestion quantity is the row's Quantity.                               *)
C11_NoMatchIffNoKeyEqualRaw ==
    HasCounters =>
        /\ DOMAIN Mapping.comparison_results = DOMAIN ingestion_df.rows
        /\ \A i \in DOMAIN ingestion_df.rows :
               /\ Record(i).match_status = NoMatchInRaw <=> KeyMatches(i) = {}
               /\ KeyMatches(i) = {} =>
                      /\ Record(i).raw_quantity = NoneCell
                      /\ Record(i).difference = NoneCell
                      /\ Record(i).ingestion_quantity = At(ingestion_df, i, "Quantity")

C11_Witness ==
    /\ HasCounters
    /\ \E i, k \in DOMAIN ingestion_df.rows :
           /\ KeyMatches(i) = {}
           /\ \E j \in DOMAIN raw_data_df.rows :
                  /\ At(raw_data_df, j, "Year") = At(ingestion_df, i, "Year")
                  /\ At(raw_data_df, j, "Facility Name") # NaN
                  /\ At(ingestion_df, i, IngestionFacilityColumn) # NaN
           /\ Record(i).match_status = NoMatchInRaw
           /\ Record(i).ingestion_quantity = Num(10)
           /\ KeyMatches(k) # {}

(* C12: with monthly rows, for a row with a key-equal raw row and numeric  *)
(* quantities the difference is raw quantity minus ingestion quantity and  *)
(* the status is Match exactly when the two quantities are equal; in every *)
(* other case of a key-equal raw row the status is Mismatch.               *)
C12_DifferenceAndStatus ==
    HasCounters =>
        \A i \in DOMAIN ingestion_df.rows :
            KeyMatches(i) # {} =>
                LET rq == Record(i).raw_quantity
                    iq == At(ingestion_df, i, "Quantity")
                IN  /\ Record(i).ingestion_quantity = iq
                    /\ Record(i).match_status \in {"Match", "Mismatch"}
                    /\ rq.t = "num" /\ iq.t = "num" =>
                           /\ Record(i).difference = Num(rq.n - iq.n)
                           /\ Record(i).match_status = "Match" <=> rq.n = iq.n
                    /\ ~(rq.t = "num" /\ iq.t = "num") =>
                           Record(i).match_status = "Mismatch"

C12_Witness ==
    /\ HasCounters
    /\ \E i, k \in DOMAIN ingestion_df.rows :
           /\ KeyMatches(i) # {} /\ KeyMatches(k) # {}
           /\ Record(i).raw_quantity = Num(12)
           /\ Record(i).ingestion_quantity = Num(10)
           /\ Record(i).difference = Num(2)
           /\ Record(i).match_status = "Mismatch"
           /\ Record(k).raw_quantity = Num(12)
           /\ Record(k).ingestion_quantity = Num(12)
           /\ Record(k).difference = Num(0)
           /\ Record(k).match_status = "Match"

(* C13: with monthly columns and GHG Emissions the matcher returns a       *)
(* placeholder status without records or counters, and the report shows   *)
(* it as neither an error nor a completed comparison.                      *)
C13_PlaceholderIsNotCompleted ==
    /\ Compared
    /\ comparison_results.resource_type = "GHG Emissions"
    /\ comparison_results.ingestion_file_type = Cols
    => LET rc == comparison_results.resource_comparison
       IN  /\ ~HasError(rc)
           /\ "status" \in DOMAIN rc.mapping
           /\ "comparison_results" \notin DOMAIN rc.mapping
           /\ "matched_rows" \notin DOMAIN rc.mapping
           /\ rc.comparison_status # "Completed"

(* The part of C13 that the placeholder does satisfy.                      *)
C13_PlaceholderWithoutRecords ==
    /\ Compared
    /\ comparison_results.resource_type = "GHG Emissions"
    /\ comparison_results.ingestion_file_type = Cols
    => LET rc == comparison_results.resource_comparison
       IN  /\ ~HasError(rc)
           /\ "status" \in DOMAIN rc.mapping
           /\ "comparison_results" \notin DOMAIN rc.mapping
           /\ "matched_rows" \notin DOMAIN rc.mapping

(* The first raw row, in raw's order, whose key equals that of row i.      *)
FirstKeyMatch(i) ==
    CHOOSE j \in KeyMatches(i) : \A k \in KeyMatches(i) : j <= k

(* C14: with monthly rows, the raw quantity, difference and status of a    *)
(* record come from the first key-equal raw row in raw's order, and the    *)
(* counters count each ingestion row once, by that first raw row.          *)
C14_FirstRawRowDecides ==
    HasCounters =>
        /\ \A i \in DOMAIN ingestion_df.rows :
               KeyMatches(i) # {} =>
                   LET rq == At(raw_data_df, FirstKeyMatch(i), "Quantity")
                       iq == At(ingestion_df, i, "Quantity")
                   IN  /\ Record(i).raw_quantity = rq
                       /\ Record(i).difference =
                              IF rq = NaN \/ iq = NaN THEN NaN ELSE Num(rq.n - iq.n)
                       /\ Record(i).match_status =
                              IF SameKeyCell(rq, iq) THEN "Match" ELSE "Mismatch"
        /\ Mapping.matched_rows =
               Cardinality({i \in DOMAIN ingestion_df.rows : KeyMatches(i) # {}})
        /\ Mapping.quantity_matches =
               Cardinality({i \in DOMAIN ingestion_df.rows :
                   /\ KeyMatches(i) # {}
                   /\ SameKeyCell(At(raw_data_df, FirstKeyMatch(i), "Quantity"),
                                  At(ingestion_df, i, "Quantity"))})

C14_Witness ==
    /\ HasCounters
    /\ \E i \in DOMAIN ingestion_df.rows :
           \E j, k \in KeyMatches(i) :
               /\ j < k
               /\ At(raw_data_df, j, "Quantity") # At(ingestion_df, i, "Quantity")
               /\ At(raw_data_df, k, "Quantity") = At(ingestion_df, i, "Quantity")
               /\ Record(i).match_status = "Mismatch"
               /\ Mapping.quantity_matches = 0

(* The number of missing cells of ingestion column c.                      *)
MissingCells(c) ==
    Cardinality({i \in DOMAIN ingestion_df.rows : ingestion_df.rows[i][c] = NaN})

NullIssues ==
    {k \in DOMAIN quality_data.quality_issues :
        "null_count" \in DOMAIN quality_data.quality_issues[k]}

(* C15: the quality analysis gives exactly one null issue, stating the     *)
(* number of missing cells, for each column that is not excluded and has a *)
(* missing cell, and none for an excluded column; excluded are Quantity    *)
(* for monthly rows, the month columns for monthly columns, nothing else.  *)
C15_NullIssuePerCheckedColumn ==
    Analyzed =>
        /\ \A c \in Identifying :
               MissingCells(c) > 0 =>
                   Cardinality({k \in NullIssues :
                       quality_data.quality_issues[k].col = ingestion_df.columns[c]}) = 1
        /\ \A k \in NullIssues :
               \E c \in Identifying :
                   /\ quality_data.quality_issues[k].col = ingestion_df.columns[c]
                   /\ MissingCells(c) > 0
                   /\ quality_data.quality_issues[k].null_count = MissingCells(c)

C15_Witness ==
    /\ Analyzed
    /\ comparison_results.ingestion_file_type = Rows
    /\ \E i \in DOMAIN ingestion_df.rows : At(ingestion_df, i, "Quantity") = NaN
    /\ \E i \in DOMAIN ingestion_df.rows :
           At(ingestion_df, i, IngestionFacilityColumn) = NaN
    /\ Cardinality(NullIssues) = 1
    /\ \A k \in NullIssues :
           /\ quality_data.quality_issues[k].col = Label(IngestionFacilityColumn)
           /\ quality_data.quality_issues[k].null_count = 1

(* The ingestion rows with a missing cell in the key.                      *)
MissingKey ==
    {i \in DOMAIN ingestion_df.rows :
        \E name \in {IngestionFacilityColumn, "Resource Name", "Month", "Year"} :
            At(ingestion_df, i, name) = NaN}

(* C16: with monthly rows, a row with a missing key cell has status        *)
(* 'No Match in Raw Data' and is counted in unmatched_rows, whatever raw   *)
(* holds.                                                                  *)
C16_MissingKeyNeverMatches ==
    HasCounters =>
        /\ \A i \in MissingKey : Record(i).match_status = NoMatchInRaw
        /\ Mapping.unmatched_rows =
               Cardinality({i \in DOMAIN ingestion_df.rows :
                   Record(i).match_status = NoMatchInRaw})
        /\ Mapping.unmatched_rows >= Cardinality(MissingKey)

C16_Witness ==
    /\ HasCounters
    /\ \E i \in MissingKey :
           /\ \E j \in DOMAIN raw_data_df.rows :
                  /\ At(raw_data_df, j, "Facility Name")
                         = At(ingestion_df, i, IngestionFacilityColumn)
                  /\ At(raw_data_df, j, "Resource Name")
                         = At(ingestion_df, i, "Resource Name")
                  /\ At(raw_data_df, j, "Month") = At(ingestion_df, i, "Month")
                  /\ At(raw_data_df, j, "Year") = At(ingestion_df, i, "Year")
           /\ Record(i).match_status = NoMatchInRaw
    /\ Mapping.unmatched_rows >= 1

(* C17: a recognized schema kind comes with resource kind GHG Emissions,   *)
(* both recognized schemas needing a Scope column.                         *)
C17_RecognizedSchemaIsGHG ==
    Compared =>
        /\ comparison_results.ingestion_file_type \in {Rows, Cols} =>
               /\ comparison_results.resource_type = "GHG Emissions"
               /\ HasLabel(ingestion_df, "Scope")
        /\ SchemaByRules(IngestionLabels) \in {Rows, Cols} =>
               comparison_results.resource_type = "GHG Emissions"

C17_Witness ==
    /\ Compared
    /\ comparison_results.ingestion_file_type = Cols
    /\ comparison_results.resource_type = "GHG Emissions"
    /\ ~HasLabel(ingestion_df, "Month")

(* GHG Emissions with schema kind Unknown does occur.                      *)
C17_GHGWithUnknownSchema ==
    /\ Compared
    /\ comparison_results.resource_type = "GHG Emissions"
    /\ comparison_results.ingestion_file_type = "Unknown"
    /\ ~HasLabel(ingestion_df, "Facility")
    /\ ~HasLabel(ingestion_df, "Facility Name")

====
